---- MODULE Spec2Model ----
(***************************************************************************)
(* Model of the socket.io presence and signaling relay of                  *)
(* backend/src/websocket/server.js (initializeWebSocketServer).            *)
(*                                                                         *)
(* Every socket.io handler runs to completion on the single event loop,    *)
(* so each handler is one action.  `emitted' holds, in emission order, the *)
(* events the handler that ran last put on the sockets that were connected *)
(* when it emitted; `handled' names that handler and its input.            *)
(*                                                                         *)
(* The specifications that follow envelopes over the wire add the          *)
(* transport: `sent' is what each client has emitted on its socket, in     *)
(* order; `pending' is the part of it the server has not yet handled; and  *)
(* `inbox' is what each socket has received from the server, in order.     *)
(* Spec, where a client's emit and its handler are one step, leaves the    *)
(* three empty.                                                            *)
(*                                                                         *)
(* The repository holds a second relay, the raw WebSocket server of        *)
(* backend/websocket.js (class WebSocketServer), with a registry of its    *)
(* own.  `channels' are its connections, `wsConnectedUsers' its Map from   *)
(* userId to connection, `wsHandled' the event it handled last and         *)
(* `wsSent' what that handler wrote.  The two relays share no state: the   *)
(* specifications of one leave the variables of the other as they are.     *)
(***************************************************************************)
EXTENDS Integers, Sequences, FiniteSets, TLC

VARIABLES sockets, connectedUsers, handled, emitted, sent, pending, inbox,
          channels, wsConnectedUsers, wsHandled, wsSent

vars == <<sockets, connectedUsers, handled, emitted, sent, pending, inbox,
          channels, wsConnectedUsers, wsHandled, wsSent>>

\* the transport
wire == <<sent, pending, inbox>>

\* the raw WebSocket relay
raw == <<channels, wsConnectedUsers, wsHandled, wsSent>>

----------------------------------------------------------------------------
(* Bounds and input domains *)

\* number of sockets the server admits; socket ids are 1..MaxSockets in
\* order of admission (socket.io gives every socket a fresh id)
MaxSockets == 3

\* number of envelopes the clients put on the wire, all sockets together
MaxEnvelopes == 3

\* the JavaScript value undefined: a field that is absent
Undefined == "undefined"

UserIds == {"u1", "u2"}

\* payloads of tokens signed with JWT_SECRET.  The login route signs
\* { userId } only; other signers put the id under another key, so that
\* decoded.userId is undefined.
Payloads ==
  { [userId |-> "u1", username |-> "alice"],
    [userId |-> "u2", username |-> Undefined],
    [userId |-> Undefined, username |-> "carol"] }

NoToken == [kind |-> "missing"]
BadToken == [kind |-> "invalid"]
SignedToken(p) == [kind |-> "signed", payload |-> p]

Tokens == {NoToken, BadToken} \cup {SignedToken(p) : p \in Payloads}

\* ids a client can address: the known users and an absent field
Targets == UserIds \cup {Undefined}

ServerTime == "serverTime"

----------------------------------------------------------------------------
(* JavaScript Map, kept as the sequence of its entries in insertion order *)

MapKeys(m) == {m[i].key : i \in 1..Len(m)}

MapHas(m, k) == k \in MapKeys(m)

\* map.get(k) for a k the map has (a handler tests the result for truthiness,
\* which is MapHas: every value stored is an object)
MapGet(m, k) ==
  m[CHOOSE i \in 1..Len(m) : m[i].key = k /\ \A j \in 1..(i - 1) : m[j].key # k].value

MapSetAppend(m, k, v) == Append(m, [key |-> k, value |-> v])

MapSet(m, k, v) ==
  IF MapHas(m, k)
    THEN [i \in 1..Len(m) |-> IF m[i].key = k THEN [key |-> k, value |-> v] ELSE m[i]]
    ELSE Append(m, [key |-> k, value |-> v])

MapDelete(m, k) == SelectSeq(m, LAMBDA e : e.key # k)

\* Array.from(map.entries()).find(([userId, userData]) => userId === k), for
\* a k some entry has: the first such entry
FindEntry(m, k) ==
  m[CHOOSE i \in 1..Len(m) : m[i].key = k /\ \A j \in 1..(i - 1) : m[j].key # k]

SpreadDataWins(data, over) ==
  [f \in (DOMAIN data) \cup (DOMAIN over) |->
     IF f \in DOMAIN data THEN data[f] ELSE over[f]]

\* { ...data, ...over }: the fields of over win
Spread(data, over) ==
  [f \in (DOMAIN data) \cup (DOMAIN over) |->
     IF f \in DOMAIN over THEN over[f] ELSE data[f]]

----------------------------------------------------------------------------
(* socket.io emission primitives *)

SocketIds(socks) == 1..Len(socks)

Connected(socks) == {i \in SocketIds(socks) : socks[i].status = "connected"}

Event(t, name, data) == [to |-> t, name |-> name, data |-> data]

\* socket.emit(name, data)
SocketEmit(socks, s, name, data) ==
  IF s \in Connected(socks) THEN <<Event(s, name, data)>> ELSE <<>>

IoToAll(socks, id, name, data) ==
  LET ids == [i \in 1..Len(socks) |-> i]
      live == SelectSeq(ids, LAMBDA i : i \in Connected(socks))
  IN [j \in 1..Len(live) |-> Event(live[j], name, data)]

\* io.to(socketId).emit(name, data): the room named after a socket id holds
\* that socket while it is connected
IoTo(socks, id, name, data) ==
  IF id \in Connected(socks) THEN <<Event(id, name, data)>> ELSE <<>>

\* socket.broadcast.emit(name, data): every connected socket but this one
BroadcastEmit(socks, s, name, data) ==
  LET ids == [i \in 1..Len(socks) |-> i]
      live == SelectSeq(ids, LAMBDA i : i \in Connected(socks) /\ i # s)
  IN [j \in 1..Len(live) |-> Event(live[j], name, data)]

----------------------------------------------------------------------------
(* State *)

Init ==
  /\ sockets = <<>>
  /\ connectedUsers = <<>>
  /\ handled = [op |-> "init", socket |-> 0, data |-> [none |-> Undefined]]
  /\ emitted = <<>>
  /\ sent = [s \in 1..MaxSockets |-> <<>>]
  /\ pending = [s \in 1..MaxSockets |-> <<>>]
  /\ inbox = [s \in 1..MaxSockets |-> <<>>]
  /\ channels = <<>>
  /\ wsConnectedUsers = <<>>
  /\ wsHandled = [op |-> "init", channel |-> 0, data |-> [none |-> Undefined]]
  /\ wsSent = <<>>

\* jwt.verify(token, JWT_SECRET) returns the payload of a signed token and
\* throws on any other
JwtVerifies(token) == token.kind = "signed"

ConnectRefusedOneError(token) ==
  /\ ~(token # NoToken /\ JwtVerifies(token))
  /\ handled' = [op |-> "connect_error", socket |-> 0,
                 data |-> [token |-> token, error |-> "Authentication error"]]
  /\ emitted' = <<>>
  /\ UNCHANGED <<sockets, connectedUsers>>

ConnectRefusedAdmitting(token) ==
  /\ Len(sockets) < MaxSockets
  /\ ~(token # NoToken /\ JwtVerifies(token))
  /\ sockets' = Append(sockets, [status |-> "connected", userId |-> Undefined,
                                 username |-> Undefined])
  /\ handled' = [op |-> "connect_error", socket |-> 0,
                 data |-> [token |-> token, error |-> "Authentication error"]]
  /\ emitted' = <<>>
  /\ UNCHANGED connectedUsers

\* io.use middleware, failing branches: next(new Error(...)).  socket.io
\* answers the handshake with the error and never admits the socket, so no
\* socket of the namespace comes of it.
ConnectRefused(token) ==
  /\ ~(token # NoToken /\ JwtVerifies(token))
  /\ LET err == IF token = NoToken
                  THEN "Authentication error: No token provided"
                  ELSE "Authentication error: Invalid token"
     IN handled' = [op |-> "connect_error", socket |-> 0,
                    data |-> [token |-> token, error |-> err]]
  /\ emitted' = <<>>
  /\ UNCHANGED <<sockets, connectedUsers>>

\* users: Array.from(connectedUsers.entries()).map(...)
OnlineUsersButLast(m) ==
  [i \in 1..(Len(m) - 1) |->
     [userId |-> m[i].key, username |-> m[i].value.username, socketId |-> m[i].value.socketId]]

OnlineUsers(m) ==
  [i \in 1..Len(m) |->
     [userId |-> m[i].key, username |-> m[i].value.username, socketId |-> m[i].value.socketId]]

ConnectionUnannounced(token) ==
  /\ Len(sockets) < MaxSockets
  /\ token # NoToken
  /\ JwtVerifies(token)
  /\ LET s == Len(sockets) + 1
         userId == token.payload.userId
         username == token.payload.username
         socks == Append(sockets, [status |-> "connected", userId |-> userId,
                                   username |-> username])
         users == MapSet(connectedUsers, userId, [socketId |-> s, username |-> username])
     IN /\ sockets' = socks
        /\ connectedUsers' = users
        /\ emitted' = SocketEmit(socks, s, "online_users", [users |-> OnlineUsers(users)])
        /\ handled' = [op |-> "connection", socket |-> s, data |-> [token |-> token]]

\* io.use middleware passing, then io.on('connection')
Connection(token) ==
  /\ Len(sockets) < MaxSockets
  /\ token # NoToken
  /\ JwtVerifies(token)
  /\ LET s == Len(sockets) + 1
         userId == token.payload.userId
         username == token.payload.username
         socks == Append(sockets, [status |-> "connected", userId |-> userId,
                                   username |-> username])
         users == MapSet(connectedUsers, userId, [socketId |-> s, username |-> username])
     IN /\ sockets' = socks
        /\ connectedUsers' = users
        /\ emitted' =
             BroadcastEmit(socks, s, "user_online",
                           [userId |-> userId, username |-> username, timestamp |-> ServerTime])
             \o SocketEmit(socks, s, "online_users", [users |-> OnlineUsers(users)])
        /\ handled' = [op |-> "connection", socket |-> s, data |-> [token |-> token]]

DisconnectSilent(s) ==
  /\ s \in Connected(sockets)
  /\ sockets' = [sockets EXCEPT ![s].status = "disconnected"]
  /\ connectedUsers' = IF sockets[s].userId # Undefined
                         THEN MapDelete(connectedUsers, sockets[s].userId)
                         ELSE connectedUsers
  /\ emitted' = <<>>
  /\ handled' = [op |-> "disconnect", socket |-> s, data |-> [reason |-> "transport close"]]

\* socket.on('disconnect'): socket.io has already taken the socket out of the
\* namespace and its rooms when the handler runs
Disconnect(s) ==
  /\ s \in Connected(sockets)
  /\ LET socks == [sockets EXCEPT ![s].status = "disconnected"]
         userId == sockets[s].userId
     IN /\ sockets' = socks
        /\ IF userId # Undefined
             THEN /\ connectedUsers' = MapDelete(connectedUsers, userId)
                  /\ emitted' = BroadcastEmit(socks, s, "user_offline",
                                   [userId |-> userId, username |-> sockets[s].username,
                                    timestamp |-> ServerTime])
             ELSE /\ connectedUsers' = connectedUsers
                  /\ emitted' = <<>>
  /\ handled' = [op |-> "disconnect", socket |-> s, data |-> [reason |-> "transport close"]]

----------------------------------------------------------------------------
(* Inbound event payloads *)

\* chat and call events are also tried with the addressing field absent, and
\* a chat message with its messageId and text absent
ChatPayloads ==
  {[recipientId |-> r, messageId |-> "m1", text |-> "hi", senderId |-> "u2"] : r \in Targets}
  \cup {[recipientId |-> "u1", messageId |-> Undefined, text |-> Undefined, senderId |-> "u2"]}

\* typing, signaling, caption and friend-request events address user "u1",
\* who is registered in some states and not in others
TypingPayloads == {[recipientId |-> r] : r \in {"u1"}}

\* call "c1" to any target, and call "c2" to "u1"
InitiatePayloads ==
  {[callId |-> "c1", roomId |-> "room", targetUserId |-> t, targetUsername |-> "callee"] :
     t \in Targets}
  \cup {[callId |-> "c2", roomId |-> "room", targetUserId |-> "u1", targetUsername |-> "callee"]}

\* the answer to call "c1" naming any caller, and the answer to call "c2"
\* naming caller "u1"; the client-supplied targetUserId differs from callerId
\* in some and equals it in others
AcceptPayloads ==
  {[callId |-> "c1", roomId |-> "room", callerId |-> k, targetUserId |-> "u1"] : k \in Targets}
  \cup {[callId |-> "c2", roomId |-> "room", callerId |-> "u1", targetUserId |-> "u2"]}

RejectPayloads ==
  {[callId |-> "c1", callerId |-> k, targetUserId |-> "u1"] : k \in Targets}
  \cup {[callId |-> "c2", callerId |-> "u1", targetUserId |-> "u2"]}

\* signaling payloads carry sender fields the client set itself
SignalPayloads ==
  {[toUserId |-> t, callId |-> "c1", sdp |-> "opaque", fromUserId |-> "u2",
    fromUsername |-> "mallory"] : t \in {"u1"}}

CaptionPayloads ==
  {[toUserId |-> t, callId |-> "c1", caption |-> "opaque"] : t \in {"u1"}}

FriendPayloads ==
  {[toUserId |-> t, requestId |-> "r1", fromUser |-> "u2"] : t \in {"u1"}}

Handled(op, s, data) == [op |-> op, socket |-> s, data |-> data]

----------------------------------------------------------------------------
(* Event handlers registered in io.on('connection') *)

\* socket.on('user_online'): logs only
UserOnline(s, userData) ==
  /\ s \in Connected(sockets)
  /\ emitted' = <<>>
  /\ handled' = Handled("user_online", s, userData)
  /\ UNCHANGED <<sockets, connectedUsers>>

ChatMessageUnconfirmed(s, data) ==
  /\ s \in Connected(sockets)
  /\ LET recipientData == MapGet(connectedUsers, data.recipientId)
     IN emitted' =
          IF MapHas(connectedUsers, data.recipientId)
            THEN IoTo(sockets, recipientData.socketId, "chat_message",
                      Spread(data, [senderId |-> sockets[s].userId,
                                    senderUsername |-> sockets[s].username,
                                    timestamp |-> ServerTime]))
            ELSE <<>>
  /\ handled' = Handled("chat_message", s, data)
  /\ UNCHANGED <<sockets, connectedUsers>>

ChatMessageOnce(s, data) ==
  /\ s \in Connected(sockets)
  /\ LET recipientData == MapGet(connectedUsers, data.recipientId)
         seen == \E i \in 1..Len(inbox[s]) :
                   /\ inbox[s][i].name = "message_delivered"
                   /\ inbox[s][i].data.messageId = data.messageId
     IN emitted' =
          IF MapHas(connectedUsers, data.recipientId) /\ ~seen
            THEN IoTo(sockets, recipientData.socketId, "chat_message",
                      Spread(data, [senderId |-> sockets[s].userId,
                                    senderUsername |-> sockets[s].username,
                                    timestamp |-> ServerTime]))
                 \o SocketEmit(sockets, s, "message_delivered",
                               [messageId |-> data.messageId,
                                recipientId |-> data.recipientId,
                                timestamp |-> ServerTime])
            ELSE <<>>
  /\ handled' = Handled("chat_message", s, data)
  /\ UNCHANGED <<sockets, connectedUsers>>

\* socket.on('chat_message')
ChatMessage(s, data) ==
  /\ s \in Connected(sockets)
  /\ LET recipientData == MapGet(connectedUsers, data.recipientId)
     IN emitted' =
          IF MapHas(connectedUsers, data.recipientId)
            THEN IoTo(sockets, recipientData.socketId, "chat_message",
                      Spread(data, [senderId |-> sockets[s].userId,
                                    senderUsername |-> sockets[s].username,
                                    timestamp |-> ServerTime]))
                 \o SocketEmit(sockets, s, "message_delivered",
                               [messageId |-> data.messageId,
                                recipientId |-> data.recipientId,
                                timestamp |-> ServerTime])
            ELSE <<>>
  /\ handled' = Handled("chat_message", s, data)
  /\ UNCHANGED <<sockets, connectedUsers>>

\* the body shared by socket.on('typing_start') and socket.on('typing_end')
Typing(name, s, data) ==
  /\ s \in Connected(sockets)
  /\ LET recipientData == MapGet(connectedUsers, data.recipientId)
     IN emitted' =
          IF MapHas(connectedUsers, data.recipientId)
            THEN IoTo(sockets, recipientData.socketId, name,
                      [senderId |-> sockets[s].userId,
                       senderUsername |-> sockets[s].username,
                       timestamp |-> ServerTime])
            ELSE <<>>
  /\ handled' = Handled(name, s, data)
  /\ UNCHANGED <<sockets, connectedUsers>>

\* socket.on('typing_start')
TypingStart(s, data) == Typing("typing_start", s, data)

\* socket.on('typing_end')
TypingEnd(s, data) == Typing("typing_end", s, data)

InitiateCallFirstCallId(s, callData) ==
  /\ s \in Connected(sockets)
  /\ LET recipientData == MapGet(connectedUsers, callData.targetUserId)
     IN emitted' =
          IF MapHas(connectedUsers, callData.targetUserId)
            THEN IoTo(sockets, recipientData.socketId, "incoming_call",
                      [callId |-> "c1",
                       roomId |-> callData.roomId,
                       callerId |-> sockets[s].userId,
                       callerName |-> sockets[s].username,
                       callerUsername |-> sockets[s].username,
                       timestamp |-> ServerTime])
            ELSE SocketEmit(sockets, s, "call_rejected",
                            [callId |-> "c1",
                             targetUsername |-> callData.targetUsername,
                             reason |-> "User not online"])
  /\ handled' = Handled("initiate_call", s, callData)
  /\ UNCHANGED <<sockets, connectedUsers>>

\* socket.on('initiate_call')
InitiateCall(s, callData) ==
  /\ s \in Connected(sockets)
  /\ LET recipientData == MapGet(connectedUsers, callData.targetUserId)
     IN emitted' =
          IF MapHas(connectedUsers, callData.targetUserId)
            THEN IoTo(sockets, recipientData.socketId, "incoming_call",
                      [callId |-> callData.callId,
                       roomId |-> callData.roomId,
                       callerId |-> sockets[s].userId,
                       callerName |-> sockets[s].username,
                       callerUsername |-> sockets[s].username,
                       timestamp |-> ServerTime])
            ELSE SocketEmit(sockets, s, "call_rejected",
                            [callId |-> callData.callId,
                             targetUsername |-> callData.targetUsername,
                             reason |-> "User not online"])
  /\ handled' = Handled("initiate_call", s, callData)
  /\ UNCHANGED <<sockets, connectedUsers>>

AcceptCallByTarget(s, data) ==
  /\ s \in Connected(sockets)
  /\ LET callerEntry == FindEntry(connectedUsers, data.targetUserId)
     IN emitted' =
          IF MapHas(connectedUsers, data.targetUserId)
            THEN IoTo(sockets, callerEntry.value.socketId, "call_accepted",
                      [callId |-> data.callId,
                       roomId |-> data.roomId,
                       targetUserId |-> sockets[s].userId,
                       targetUsername |-> sockets[s].username])
            ELSE <<>>
  /\ handled' = Handled("accept_call", s, data)
  /\ UNCHANGED <<sockets, connectedUsers>>

AcceptCallOnlyInvited(s, data) ==
  /\ s \in Connected(sockets)
  /\ LET callerEntry == FindEntry(connectedUsers, data.callerId)
         invited == \E i \in 1..Len(inbox[s]) :
                      /\ inbox[s][i].name = "incoming_call"
                      /\ inbox[s][i].data.callId = data.callId
     IN emitted' =
          IF MapHas(connectedUsers, data.callerId) /\ invited
            THEN IoTo(sockets, callerEntry.value.socketId, "call_accepted",
                      [callId |-> data.callId,
                       roomId |-> data.roomId,
                       targetUserId |-> sockets[s].userId,
                       targetUsername |-> sockets[s].username])
            ELSE <<>>
  /\ handled' = Handled("accept_call", s, data)
  /\ UNCHANGED <<sockets, connectedUsers>>

\* socket.on('accept_call')
AcceptCall(s, data) ==
  /\ s \in Connected(sockets)
  /\ LET callerEntry == FindEntry(connectedUsers, data.callerId)
     IN emitted' =
          IF MapHas(connectedUsers, data.callerId)
            THEN IoTo(sockets, callerEntry.value.socketId, "call_accepted",
                      [callId |-> data.callId,
                       roomId |-> data.roomId,
                       targetUserId |-> sockets[s].userId,
                       targetUsername |-> sockets[s].username])
            ELSE <<>>
  /\ handled' = Handled("accept_call", s, data)
  /\ UNCHANGED <<sockets, connectedUsers>>

RejectCallNotifyingAnswerer(s, data) ==
  /\ s \in Connected(sockets)
  /\ LET callerEntry == FindEntry(connectedUsers, data.callerId)
     IN emitted' =
          IF MapHas(connectedUsers, data.callerId)
            THEN IoTo(sockets, callerEntry.value.socketId, "call_rejected",
                      [callId |-> data.callId,
                       targetUsername |-> sockets[s].username,
                       reason |-> "Call rejected by user"])
            ELSE SocketEmit(sockets, s, "call_rejected",
                            [callId |-> data.callId,
                             targetUsername |-> sockets[s].username,
                             reason |-> "User not online"])
  /\ handled' = Handled("reject_call", s, data)
  /\ UNCHANGED <<sockets, connectedUsers>>

\* socket.on('reject_call')
RejectCall(s, data) ==
  /\ s \in Connected(sockets)
  /\ LET callerEntry == FindEntry(connectedUsers, data.callerId)
     IN emitted' =
          IF MapHas(connectedUsers, data.callerId)
            THEN IoTo(sockets, callerEntry.value.socketId, "call_rejected",
                      [callId |-> data.callId,
                       targetUsername |-> sockets[s].username,
                       reason |-> "Call rejected by user"])
            ELSE <<>>
  /\ handled' = Handled("reject_call", s, data)
  /\ UNCHANGED <<sockets, connectedUsers>>

SignalWithNotice(name, s, data) ==
  /\ s \in Connected(sockets)
  /\ LET recipientData == MapGet(connectedUsers, data.toUserId)
     IN emitted' =
          IF MapHas(connectedUsers, data.toUserId)
            THEN IoTo(sockets, recipientData.socketId, name,
                      Spread(data, [fromUserId |-> sockets[s].userId]))
            ELSE SocketEmit(sockets, s, "call_rejected",
                            [callId |-> data.callId, reason |-> "User not online"])
  /\ handled' = Handled(name, s, data)
  /\ UNCHANGED <<sockets, connectedUsers>>

\* the body shared by the four webrtc_* handlers
Signal(name, s, data) ==
  /\ s \in Connected(sockets)
  /\ LET recipientData == MapGet(connectedUsers, data.toUserId)
     IN emitted' =
          IF MapHas(connectedUsers, data.toUserId)
            THEN IoTo(sockets, recipientData.socketId, name,
                      Spread(data, [fromUserId |-> sockets[s].userId]))
            ELSE <<>>
  /\ handled' = Handled(name, s, data)
  /\ UNCHANGED <<sockets, connectedUsers>>

\* socket.on('webrtc_offer')
WebrtcOffer(s, data) == Signal("webrtc_offer", s, data)

\* socket.on('webrtc_answer')
WebrtcAnswer(s, data) == Signal("webrtc_answer", s, data)

\* socket.on('webrtc_ice_candidate')
WebrtcIceCandidate(s, data) == Signal("webrtc_ice_candidate", s, data)

\* socket.on('webrtc_end_call')
WebrtcEndCall(s, data) == Signal("webrtc_end_call", s, data)

SendCaptionEchoed(s, data) ==
  /\ s \in Connected(sockets)
  /\ LET recipientData == MapGet(connectedUsers, data.toUserId)
         caption == [caption |-> data.caption,
                     callId |-> data.callId,
                     fromUserId |-> sockets[s].userId,
                     fromUsername |-> sockets[s].username]
     IN emitted' =
          IF MapHas(connectedUsers, data.toUserId)
            THEN IoTo(sockets, recipientData.socketId, "receive_caption", caption)
                 \o SocketEmit(sockets, s, "caption_sent", caption)
            ELSE <<>>
  /\ handled' = Handled("send_caption", s, data)
  /\ UNCHANGED <<sockets, connectedUsers>>

\* socket.on('send_caption')
SendCaption(s, data) ==
  /\ s \in Connected(sockets)
  /\ LET recipientData == MapGet(connectedUsers, data.toUserId)
     IN emitted' =
          IF MapHas(connectedUsers, data.toUserId)
            THEN IoTo(sockets, recipientData.socketId, "receive_caption",
                      [caption |-> data.caption,
                       callId |-> data.callId,
                       fromUserId |-> sockets[s].userId,
                       fromUsername |-> sockets[s].username])
            ELSE <<>>
  /\ handled' = Handled("send_caption", s, data)
  /\ UNCHANGED <<sockets, connectedUsers>>

FriendRequestSentForgetting(s, data) ==
  /\ s \in Connected(sockets)
  /\ LET recipientData == MapGet(connectedUsers, data.toUserId)
     IN emitted' =
          IF MapHas(connectedUsers, data.toUserId)
            THEN IoTo(sockets, recipientData.socketId, "new_friend_request",
                      [requestId |-> data.requestId,
                       fromUser |-> data.fromUser,
                       timestamp |-> ServerTime])
            ELSE <<>>
  /\ handled' = Handled("friend_request_sent", s, data)
  /\ connectedUsers' = MapDelete(connectedUsers, data.toUserId)
  /\ UNCHANGED sockets

\* socket.on('friend_request_sent')
FriendRequestSent(s, data) ==
  /\ s \in Connected(sockets)
  /\ LET recipientData == MapGet(connectedUsers, data.toUserId)
     IN emitted' =
          IF MapHas(connectedUsers, data.toUserId)
            THEN IoTo(sockets, recipientData.socketId, "new_friend_request",
                      [requestId |-> data.requestId,
                       fromUser |-> data.fromUser,
                       timestamp |-> ServerTime])
            ELSE <<>>
  /\ handled' = Handled("friend_request_sent", s, data)
  /\ UNCHANGED <<sockets, connectedUsers>>

----------------------------------------------------------------------------
(* Specification *)

Next ==
  \/ \E token \in Tokens : ConnectRefused(token) /\ UNCHANGED <<wire, raw>>
  \/ \E token \in Tokens : Connection(token) /\ UNCHANGED <<wire, raw>>
  \/ \E s \in 1..MaxSockets : Disconnect(s) /\ UNCHANGED <<wire, raw>>
  \/ \E s \in 1..MaxSockets : UserOnline(s, [username |-> "anyone"]) /\ UNCHANGED <<wire, raw>>
  \/ \E s \in 1..MaxSockets, data \in ChatPayloads : ChatMessage(s, data) /\ UNCHANGED <<wire, raw>>
  \/ \E s \in 1..MaxSockets, data \in TypingPayloads : TypingStart(s, data) /\ UNCHANGED <<wire, raw>>
  \/ \E s \in 1..MaxSockets, data \in TypingPayloads : TypingEnd(s, data) /\ UNCHANGED <<wire, raw>>
  \/ \E s \in 1..MaxSockets, data \in InitiatePayloads : InitiateCall(s, data) /\ UNCHANGED <<wire, raw>>
  \/ \E s \in 1..MaxSockets, data \in AcceptPayloads : AcceptCall(s, data) /\ UNCHANGED <<wire, raw>>
  \/ \E s \in 1..MaxSockets, data \in RejectPayloads : RejectCall(s, data) /\ UNCHANGED <<wire, raw>>
  \/ \E s \in 1..MaxSockets, data \in SignalPayloads : WebrtcOffer(s, data) /\ UNCHANGED <<wire, raw>>
  \/ \E s \in 1..MaxSockets, data \in SignalPayloads : WebrtcAnswer(s, data) /\ UNCHANGED <<wire, raw>>
  \/ \E s \in 1..MaxSockets, data \in SignalPayloads : WebrtcIceCandidate(s, data) /\ UNCHANGED <<wire, raw>>
  \/ \E s \in 1..MaxSockets, data \in SignalPayloads : WebrtcEndCall(s, data) /\ UNCHANGED <<wire, raw>>
  \/ \E s \in 1..MaxSockets, data \in CaptionPayloads : SendCaption(s, data) /\ UNCHANGED <<wire, raw>>
  \/ \E s \in 1..MaxSockets, data \in FriendPayloads : FriendRequestSent(s, data) /\ UNCHANGED <<wire, raw>>

Spec == Init /\ [][Next]_vars

----------------------------------------------------------------------------
(* Transport: envelopes in flight *)

\* socket.io carries the packets of one socket in order, each way; a handler
\* runs when its packet arrives and runs to completion before the next one

RECURSIVE SentBy(_)
\* envelopes the clients of sockets 1..n have emitted so far
SentBy(n) == IF n = 0 THEN 0 ELSE Len(sent[n]) + SentBy(n - 1)

\* the client of socket s calls socket.emit(op, data)
ClientSend(s, op, data) ==
  /\ s \in Connected(sockets)
  /\ SentBy(MaxSockets) < MaxEnvelopes
  /\ sent' = [sent EXCEPT ![s] = Append(@, [op |-> op, data |-> data])]
  /\ pending' = [pending EXCEPT ![s] = Append(@, [op |-> op, data |-> data])]
  /\ UNCHANGED <<sockets, connectedUsers, handled, emitted, inbox, raw>>

\* what the sockets have received once the events `out' of the handler of
\* socket s are on the wire
Received(box, s, out) ==
  [t \in 1..MaxSockets |->
     LET mine == SelectSeq(out, LAMBDA ev : ev.to = t)
     IN box[t] \o [i \in 1..Len(mine) |->
                     [from |-> s, name |-> mine[i].name, data |-> mine[i].data]]]

\* the handler registered with socket.on for the event name
OnEvent(s, e) ==
  CASE e.op = "user_online" -> UserOnline(s, e.data)
    [] e.op = "chat_message" -> ChatMessage(s, e.data)
    [] e.op = "typing_start" -> TypingStart(s, e.data)
    [] e.op = "typing_end" -> TypingEnd(s, e.data)
    [] e.op = "initiate_call" -> InitiateCall(s, e.data)
    [] e.op = "accept_call" -> AcceptCall(s, e.data)
    [] e.op = "reject_call" -> RejectCall(s, e.data)
    [] e.op = "webrtc_offer" -> WebrtcOffer(s, e.data)
    [] e.op = "webrtc_answer" -> WebrtcAnswer(s, e.data)
    [] e.op = "webrtc_ice_candidate" -> WebrtcIceCandidate(s, e.data)
    [] e.op = "webrtc_end_call" -> WebrtcEndCall(s, e.data)
    [] e.op = "send_caption" -> SendCaption(s, e.data)
    [] e.op = "friend_request_sent" -> FriendRequestSent(s, e.data)

ServerHandleNewest(s) ==
  /\ pending[s] # <<>>
  /\ OnEvent(s, pending[s][Len(pending[s])])
  /\ pending' = [pending EXCEPT ![s] = SubSeq(@, 1, Len(@) - 1)]
  /\ inbox' = Received(inbox, s, emitted')
  /\ UNCHANGED <<sent, raw>>

\* the oldest envelope of socket s arrives and its handler runs
ServerHandle(s) ==
  /\ pending[s] # <<>>
  /\ OnEvent(s, Head(pending[s]))
  /\ pending' = [pending EXCEPT ![s] = Tail(@)]
  /\ inbox' = Received(inbox, s, emitted')
  /\ UNCHANGED <<sent, raw>>

\* a handshake that passes the middleware; the new socket and the others
\* receive what the connection handler emits
WireConnection(token) ==
  /\ Connection(token)
  /\ inbox' = Received(inbox, handled'.socket, emitted')
  /\ UNCHANGED <<sent, pending, raw>>

\* socket s closes; what its client had emitted and the server had not yet
\* received is lost with the connection
WireDisconnect(s) ==
  /\ Disconnect(s)
  /\ pending' = [pending EXCEPT ![s] = <<>>]
  /\ inbox' = Received(inbox, s, emitted')
  /\ UNCHANGED <<sent, raw>>

----------------------------------------------------------------------------
(* Specification of ordered delivery: the sockets of a session open, then  *)
(* their clients emit chat messages and offers to one user, each carrying  *)
(* its sender's own sequence number                                        *)

\* tokens the login route signs for two users
WireTokens == {SignedToken(p) : p \in {q \in Payloads : q.userId \in UserIds}}

\* the user the envelopes are addressed to
FifoTarget == "u2"

FifoChat(s) ==
  [recipientId |-> FifoTarget, messageId |-> "m1", text |-> "hi", seq |-> Len(sent[s]) + 1]

FifoOffer(s) ==
  [toUserId |-> FifoTarget, callId |-> "c1", seq |-> Len(sent[s]) + 1]

\* no socket opens once envelopes flow, so that the target stays registered
\* on one socket
FifoNext ==
  \/ \E token \in WireTokens : SentBy(MaxSockets) = 0 /\ WireConnection(token)
  \/ \E s \in 1..MaxSockets : ClientSend(s, "chat_message", FifoChat(s))
  \/ \E s \in 1..MaxSockets : ClientSend(s, "webrtc_offer", FifoOffer(s))
  \/ \E s \in 1..MaxSockets : ServerHandle(s)

SpecFifo == Init /\ [][FifoNext]_vars

----------------------------------------------------------------------------
(* Specification of call signaling in any order: invitations, answers and  *)
(* SDP answers for call "c1" between two users, whatever came before       *)

CallInvites == {d \in InitiatePayloads : d.callId = "c1" /\ d.targetUserId \in UserIds}

CallAnswers == {d \in AcceptPayloads : d.callId = "c1" /\ d.callerId \in UserIds}

\* number of sockets that take part in the calls, and of envelopes their
\* clients emit
MaxCallSockets == 2
MaxCallEnvelopes == 2

\* the sockets open, then their clients emit
CallsNext ==
  \/ \E token \in WireTokens :
       /\ Len(sockets) < MaxCallSockets
       /\ SentBy(MaxSockets) = 0
       /\ WireConnection(token)
  \/ \E s \in 1..MaxSockets, data \in CallInvites :
       SentBy(MaxSockets) < MaxCallEnvelopes /\ ClientSend(s, "initiate_call", data)
  \/ \E s \in 1..MaxSockets, data \in CallAnswers :
       SentBy(MaxSockets) < MaxCallEnvelopes /\ ClientSend(s, "accept_call", data)
  \/ \E s \in 1..MaxSockets, data \in SignalPayloads :
       SentBy(MaxSockets) < MaxCallEnvelopes /\ ClientSend(s, "webrtc_answer", data)
  \/ \E s \in 1..MaxSockets : ServerHandle(s)

SpecCalls == Init /\ [][CallsNext]_vars

----------------------------------------------------------------------------
(* Specification of one session: A connects, B connects, A invites B, B    *)
(* rejects, A leaves, B writes to A                                        *)

ScenarioInvites(b) ==
  {[callId |-> c, roomId |-> r, targetUserId |-> b, targetUsername |-> "callee"] :
     c \in {"c1", "c2"}, r \in {"room", "lobby"}}

\* the envelopes of every routed event that address user a
EnvelopesTo(a) ==
  {[op |-> "chat_message", data |-> d] : d \in {x \in ChatPayloads : x.recipientId = a}}
  \cup {[op |-> o, data |-> d] :
          o \in {"typing_start", "typing_end"}, d \in {x \in TypingPayloads : x.recipientId = a}}
  \cup {[op |-> "initiate_call", data |-> d] : d \in {x \in InitiatePayloads : x.targetUserId = a}}
  \cup {[op |-> "accept_call", data |-> d] : d \in {x \in AcceptPayloads : x.callerId = a}}
  \cup {[op |-> "reject_call", data |-> d] : d \in {x \in RejectPayloads : x.callerId = a}}
  \cup {[op |-> o, data |-> d] :
          o \in {"webrtc_offer", "webrtc_answer", "webrtc_ice_candidate", "webrtc_end_call"},
          d \in {x \in SignalPayloads : x.toUserId = a}}
  \cup {[op |-> "send_caption", data |-> d] : d \in {x \in CaptionPayloads : x.toUserId = a}}
  \cup {[op |-> "friend_request_sent", data |-> d] : d \in {x \in FriendPayloads : x.toUserId = a}}

\* the last event socket s received
LastReceived(s) == inbox[s][Len(inbox[s])]

\* A is socket 1 and B is socket 2
ScenarioNext ==
  \/ \E token \in WireTokens :
       /\ Len(sockets) = 0
       /\ WireConnection(token)
  \/ \E token \in WireTokens :
       /\ Len(sockets) = 1
       /\ token.payload.userId # sockets[1].userId
       /\ WireConnection(token)
  \/ \E data \in ScenarioInvites(IF Len(sockets) = 2 THEN sockets[2].userId ELSE Undefined) :
       /\ Len(sockets) = 2
       /\ sent[1] = <<>>
       /\ ClientSend(1, "initiate_call", data)
  \/ /\ Len(sockets) = 2
     /\ sent[2] = <<>>
     /\ inbox[2] # <<>>
     /\ LastReceived(2).name = "incoming_call"
     /\ ClientSend(2, "reject_call", [callId |-> LastReceived(2).data.callId,
                                      callerId |-> LastReceived(2).data.callerId])
  \/ /\ inbox[1] # <<>>
     /\ LastReceived(1).name = "call_rejected"
     /\ WireDisconnect(1)
  \/ \E e \in EnvelopesTo(IF Len(sockets) >= 1 THEN sockets[1].userId ELSE Undefined) :
       /\ Len(sockets) = 2
       /\ 1 \notin Connected(sockets)
       /\ ClientSend(2, e.op, e.data)
  \/ \E s \in 1..MaxSockets : ServerHandle(s)

SpecScenario == Init /\ [][ScenarioNext]_vars

----------------------------------------------------------------------------
(* Specification of repeated chat messages: the sockets open, then their   *)
(* clients emit chat messages, the same one more than once                 *)

RepeatChats == {d \in ChatPayloads : d.recipientId \in UserIds /\ d.messageId # Undefined}

\* number of sockets that chat, and of chat messages their clients emit
MaxChatSockets == 2
MaxChatEnvelopes == 2

RepeatNext ==
  \/ \E token \in WireTokens :
       /\ Len(sockets) < MaxChatSockets
       /\ SentBy(MaxSockets) = 0
       /\ WireConnection(token)
  \/ \E s \in 1..MaxSockets, data \in RepeatChats :
       SentBy(MaxSockets) < MaxChatEnvelopes /\ ClientSend(s, "chat_message", data)
  \/ \E s \in 1..MaxSockets : ServerHandle(s)

SpecRepeat == Init /\ [][RepeatNext]_vars

----------------------------------------------------------------------------
(* Specification of presence: sockets connect with any token that verifies *)
(* and disconnect, and receive what the two handlers emit                   *)

PresenceNext ==
  \/ \E token \in Tokens : WireConnection(token)
  \/ \E s \in 1..MaxSockets : WireDisconnect(s)

SpecPresence == Init /\ [][PresenceNext]_vars

----------------------------------------------------------------------------
(* The raw WebSocket relay of backend/websocket.js (class WebSocketServer) *)

\* number of connections the WebSocket server takes; connections are
\* numbered in order of arrival
MaxChannels == 2

\* the JavaScript value null
Null == "null"

\* if (userId): null, undefined and the empty string are falsy
Truthy(v) == v \notin {Null, Undefined, ""}

\* the socket.io relay, which the raw relay does not touch
socketIo == <<sockets, connectedUsers, handled, emitted>>

OpenChannels(chs) == {c \in 1..Len(chs) : chs[c].readyState = "OPEN"}

\* this.connectedUsers, a Map the relay only gets from, sets and deletes in:
\* kept as the function from its keys to their connections
WsMapSet(m, k, v) == [x \in (DOMAIN m) \cup {k} |-> IF x = k THEN v ELSE m[x]]

WsMapDelete(m, k) == [x \in (DOMAIN m) \ {k} |-> m[x]]

\* sendToUser without the readyState test
SendToUserAnyState(chs, users, userId, message) ==
  IF userId \in DOMAIN users
    THEN [written |-> << [to |-> users[userId], message |-> message] >>,
          returns |-> TRUE]
    ELSE [written |-> <<>>, returns |-> FALSE]

\* sendToUser(userId, message): what it writes and what it returns, with
\* the connections chs and the registry users
SendToUser(chs, users, userId, message) ==
  IF userId \in DOMAIN users /\ chs[users[userId]].readyState = "OPEN"
    THEN [written |-> << [to |-> users[userId], message |-> message] >>,
          returns |-> TRUE]
    ELSE [written |-> <<>>, returns |-> FALSE]

\* messages a client can send: auth under a userId or without one, and the
\* relayed types, each for user "u1" and carrying the userId and callerId
\* the client claims
AuthMessages ==
  {[type |-> "auth", userId |-> u, username |-> "name"] : u \in UserIds \cup {Undefined}}

RelayTypes ==
  {"webrtc_offer", "webrtc_answer", "webrtc_ice_candidate", "webrtc_end_call",
   "call_notification"}

RelayMessages(type) ==
  {[type |-> type, targetUserId |-> t, userId |-> u, callerId |-> u, callId |-> "c1",
    callerName |-> "caller", offer |-> "offer", answer |-> "answer",
    candidate |-> "candidate"] : t \in {"u1"}, u \in UserIds}

\* wss.on('connection'): userId and username start as null
WsConnection ==
  /\ Len(channels) < MaxChannels
  /\ channels' = Append(channels, [readyState |-> "OPEN", userId |-> Null, username |-> Null])
  /\ wsHandled' = [op |-> "connection", channel |-> Len(channels) + 1,
                   data |-> [none |-> Undefined]]
  /\ wsSent' = <<>>
  /\ UNCHANGED <<wsConnectedUsers, socketIo, wire>>

\* case 'auth'
WsAuth(c, data) ==
  /\ c \in OpenChannels(channels)
  /\ LET chs == [channels EXCEPT ![c].userId = data.userId, ![c].username = data.username]
         users == WsMapSet(wsConnectedUsers, data.userId, c)
     IN /\ channels' = chs
        /\ wsConnectedUsers' = users
        /\ wsSent' = SendToUser(chs, users, data.userId,
                                [type |-> "auth_success",
                                 message |-> "WebSocket authenticated successfully"]).written
  /\ wsHandled' = [op |-> "message", channel |-> c, data |-> data]
  /\ UNCHANGED <<socketIo, wire>>

\* data.callerName || 'User'
OrUser(name) == IF Truthy(name) THEN name ELSE "User"

\* handleWebRTCOffer(data)
HandleWebRTCOffer(data) ==
  SendToUser(channels, wsConnectedUsers, data.targetUserId,
             [type |-> "call_notification", callId |-> data.callId,
              callerId |-> data.userId, callerName |-> OrUser(data.callerName),
              offer |-> data.offer, timestamp |-> ServerTime])

\* handleWebRTCAnswer(data)
HandleWebRTCAnswer(data) ==
  SendToUser(channels, wsConnectedUsers, data.targetUserId,
             [type |-> "webrtc_answer", answer |-> data.answer, callId |-> data.callId,
              fromUserId |-> data.userId])

\* handleICECandidate(data)
HandleICECandidate(data) ==
  SendToUser(channels, wsConnectedUsers, data.targetUserId,
             [type |-> "webrtc_ice_candidate", candidate |-> data.candidate,
              callId |-> data.callId, fromUserId |-> data.userId])

\* handleEndCall(data)
HandleEndCall(data) ==
  SendToUser(channels, wsConnectedUsers, data.targetUserId,
             [type |-> "webrtc_end_call", callId |-> data.callId,
              fromUserId |-> data.userId])

\* handleCallNotification(data)
HandleCallNotification(data) ==
  SendToUser(channels, wsConnectedUsers, data.targetUserId,
             [type |-> "call_notification", callId |-> data.callId,
              callerId |-> data.callerId, callerName |-> data.callerName,
              timestamp |-> ServerTime])

\* ws.on('message') for a relayed type: the switch calls the handler of
\* data.type, whose sendToUser result is dropped
WsRelay(c, data, result) ==
  /\ c \in OpenChannels(channels)
  /\ wsSent' = result.written
  /\ wsHandled' = [op |-> "message", channel |-> c, data |-> data]
  /\ UNCHANGED <<channels, wsConnectedUsers, socketIo, wire>>

WsWebrtcOffer(c, data) == WsRelay(c, data, HandleWebRTCOffer(data))
WsWebrtcAnswer(c, data) == WsRelay(c, data, HandleWebRTCAnswer(data))
WsWebrtcIceCandidate(c, data) == WsRelay(c, data, HandleICECandidate(data))
WsWebrtcEndCall(c, data) == WsRelay(c, data, HandleEndCall(data))
WsCallNotification(c, data) == WsRelay(c, data, HandleCallNotification(data))

\* default: an unknown type is logged
WsUnknown(c, data) == WsRelay(c, data, [written |-> <<>>, returns |-> FALSE])

\* the peer's close frame has arrived: the connection is closing and the
\* close event has not yet been emitted
WsClosing(c) ==
  /\ c \in OpenChannels(channels)
  /\ channels' = [channels EXCEPT ![c].readyState = "CLOSING"]
  /\ UNCHANGED <<wsConnectedUsers, wsHandled, wsSent, socketIo, wire>>

\* ws.on('close')
WsClose(c) ==
  /\ c \in 1..Len(channels)
  /\ channels[c].readyState # "CLOSED"
  /\ channels' = [channels EXCEPT ![c].readyState = "CLOSED"]
  /\ wsConnectedUsers' = IF Truthy(channels[c].userId)
                           THEN WsMapDelete(wsConnectedUsers, channels[c].userId)
                           ELSE wsConnectedUsers
  /\ wsHandled' = [op |-> "close", channel |-> c, data |-> [none |-> Undefined]]
  /\ wsSent' = <<>>
  /\ UNCHANGED <<socketIo, wire>>

RawNext ==
  \/ WsConnection
  \/ \E c \in 1..MaxChannels, data \in AuthMessages : WsAuth(c, data)
  \/ \E c \in 1..MaxChannels, data \in RelayMessages("webrtc_offer") : WsWebrtcOffer(c, data)
  \/ \E c \in 1..MaxChannels, data \in RelayMessages("webrtc_answer") : WsWebrtcAnswer(c, data)
  \/ \E c \in 1..MaxChannels, data \in RelayMessages("webrtc_ice_candidate") :
       WsWebrtcIceCandidate(c, data)
  \/ \E c \in 1..MaxChannels, data \in RelayMessages("webrtc_end_call") :
       WsWebrtcEndCall(c, data)
  \/ \E c \in 1..MaxChannels, data \in RelayMessages("call_notification") :
       WsCallNotification(c, data)
  \/ \E c \in 1..MaxChannels : WsUnknown(c, [type |-> "ping"])
  \/ \E c \in 1..MaxChannels : WsClosing(c)
  \/ \E c \in 1..MaxChannels : WsClose(c)

SpecRaw == Init /\ [][RawNext]_vars

\* the raw relay as seen by one user: connections register as "u1" or
\* without a userId, and every relayed message is for "u1" and names "u1"
SendAuths == {m \in AuthMessages : m.userId \in {"u1", Undefined}}

SendRelays(type) == {m \in RelayMessages(type) : m.userId = "u1"}

SendNext ==
  \/ WsConnection
  \/ \E c \in 1..MaxChannels, data \in SendAuths : WsAuth(c, data)
  \/ \E c \in 1..MaxChannels, data \in SendRelays("webrtc_offer") : WsWebrtcOffer(c, data)
  \/ \E c \in 1..MaxChannels, data \in SendRelays("webrtc_answer") : WsWebrtcAnswer(c, data)
  \/ \E c \in 1..MaxChannels, data \in SendRelays("webrtc_ice_candidate") :
       WsWebrtcIceCandidate(c, data)
  \/ \E c \in 1..MaxChannels, data \in SendRelays("webrtc_end_call") :
       WsWebrtcEndCall(c, data)
  \/ \E c \in 1..MaxChannels, data \in SendRelays("call_notification") :
       WsCallNotification(c, data)
  \/ \E c \in 1..MaxChannels : WsUnknown(c, [type |-> "ping"])
  \/ \E c \in 1..MaxChannels : WsClosing(c)
  \/ \E c \in 1..MaxChannels : WsClose(c)

SpecSend == Init /\ [][SendNext]_vars

----------------------------------------------------------------------------
(* Vocabulary of the properties *)

\* the events of the last handler that went to socket t under the name given
EventsTo(t, name) == {i \in 1..Len(emitted) : emitted[i].to = t /\ emitted[i].name = name}

EventsNamed(name) == {i \in 1..Len(emitted) : emitted[i].name = name}

\* the userId an inbound event addresses
TargetOf(h) ==
  CASE h.op \in {"chat_message", "typing_start", "typing_end"} -> h.data.recipientId
    [] h.op = "initiate_call" -> h.data.targetUserId
    [] h.op \in {"accept_call", "reject_call"} -> h.data.callerId
    [] OTHER -> h.data.toUserId

BestEffortOps ==
  {"typing_start", "typing_end", "webrtc_offer", "webrtc_answer",
   "webrtc_ice_candidate", "webrtc_end_call", "send_caption"}

RoutedOps ==
  BestEffortOps \cup {"chat_message", "initiate_call", "accept_call", "reject_call",
                      "friend_request_sent"}

\* names under which an inbound event reaches its target
ForwardName(op) ==
  CASE op = "initiate_call" -> "incoming_call"
    [] op = "accept_call" -> "call_accepted"
    [] op = "reject_call" -> "call_rejected"
    [] op = "send_caption" -> "receive_caption"
    [] op = "friend_request_sent" -> "new_friend_request"
    [] OTHER -> op

\* the events of the last handler that are forwards to the addressed user, as
\* opposed to answers to the sender (message_delivered, and the call_rejected
\* that answers an initiate_call)
Forwards == {i \in 1..Len(emitted) : emitted[i].name = ForwardName(handled.op)}

\* the sockets admitted under userId u, open or closed
SocketsOf(u) == {t \in SocketIds(sockets) : sockets[t].userId = u}

\* the identity the new socket of the last connection registered
Entrant == sockets[handled.socket].userId

----------------------------------------------------------------------------
(* C1 *)

\* C1: the registry never holds two entries for one userId; an entry names
\* the socket that registered that userId last; every event forwarded to a
\* userId goes to that last socket, none to an earlier one; and while every
\* socket that registered a userId is still open, the userId is registered
\* and an event routed to it is forwarded, once.
C1_LastRegistrationWins ==
  /\ \A t \in Connected(sockets) :
       (\A t2 \in SocketsOf(sockets[t].userId) : t2 \in Connected(sockets))
         => MapHas(connectedUsers, sockets[t].userId)
  /\ (/\ handled.op \in RoutedOps
      /\ SocketsOf(TargetOf(handled)) # {}
      /\ SocketsOf(TargetOf(handled)) \subseteq Connected(sockets))
       => Cardinality(Forwards) = 1
  /\ \A i, j \in 1..Len(connectedUsers) :
       connectedUsers[i].key = connectedUsers[j].key => i = j
  /\ \A i \in 1..Len(connectedUsers) :
       LET e == connectedUsers[i]
       IN /\ e.value.socketId \in SocketsOf(e.key)
          /\ \A t \in SocketsOf(e.key) : t <= e.value.socketId
  /\ handled.op \in RoutedOps =>
       \A i \in Forwards :
         /\ emitted[i].to \in SocketsOf(TargetOf(handled))
         /\ \A t \in SocketsOf(TargetOf(handled)) : t <= emitted[i].to

\* C1 witness: a userId registered twice, both sockets still open, and a chat
\* message for it forwarded to the later socket
C1_Witness ==
  /\ handled.op = "chat_message"
  /\ \E t1, t2 \in Connected(sockets) :
       /\ t1 < t2
       /\ sockets[t1].userId = handled.data.recipientId
       /\ sockets[t2].userId = handled.data.recipientId
       /\ EventsTo(t2, "chat_message") # {}
       /\ EventsTo(t1, "chat_message") = {}

----------------------------------------------------------------------------
(* C2 *)

\* C2: the registry has exactly one entry for each userId that has an open
\* authenticated socket, and no other entry.
C2_RegistryMatchesLiveChannels ==
  /\ MapKeys(connectedUsers) = {sockets[t].userId : t \in Connected(sockets)}
  /\ Len(connectedUsers) = Cardinality({sockets[t].userId : t \in Connected(sockets)})

----------------------------------------------------------------------------
(* C3 *)

\* C3: a disconnect of a socket whose userId is not in the registry at that
\* moment leaves the registry as it is and sends user_offline to no socket.
C3_LateDisconnectIsSilent ==
  [][(/\ handled'.op = "disconnect"
      /\ ~MapHas(connectedUsers, sockets[handled'.socket].userId))
     => (/\ connectedUsers' = connectedUsers
         /\ \A i \in 1..Len(emitted') : emitted'[i].name # "user_offline")]_vars

----------------------------------------------------------------------------
(* C4 *)

\* C4: a connection of identity X sends exactly one user_online naming X to
\* every open socket of another identity and none to any socket of X.
C4_OnlineToOthersOnly ==
  handled.op = "connection" =>
    \A t \in Connected(sockets) :
      LET n == Cardinality({i \in EventsTo(t, "user_online") :
                              emitted[i].data.userId = Entrant})
      IN IF sockets[t].userId = Entrant THEN n = 0 ELSE n = 1

----------------------------------------------------------------------------
(* C5 *)

\* C5 as stated: a connection of X delivers exactly one online_users, to the
\* new socket, listing every other registered identity and not X.
C5_RosterExcludesEntrant ==
  handled.op = "connection" =>
    /\ Cardinality(EventsNamed("online_users")) = 1
    /\ \A i \in EventsNamed("online_users") :
         /\ emitted[i].to = handled.socket
         /\ {emitted[i].data.users[j].userId : j \in 1..Len(emitted[i].data.users)}
              = MapKeys(connectedUsers) \ {Entrant}

\* C5 amended: a connection of X delivers exactly one online_users, to the
\* new socket only; it lists every identity registered at that moment once,
\* with its username and socket id, X itself with the new socket included.
C5_RosterIsRegistry ==
  handled.op = "connection" =>
    /\ Cardinality(EventsNamed("online_users")) = 1
    /\ \A i \in EventsNamed("online_users") :
         LET users == emitted[i].data.users
         IN /\ emitted[i].to = handled.socket
            /\ Len(users) = Len(connectedUsers)
            /\ \A j \in 1..Len(users) :
                 /\ users[j].userId = connectedUsers[j].key
                 /\ users[j].username = connectedUsers[j].value.username
                 /\ users[j].socketId = connectedUsers[j].value.socketId
            /\ \E j \in 1..Len(users) :
                 users[j].userId = Entrant /\ users[j].socketId = handled.socket

\* C5 witness: X connects while another identity is registered and gets a
\* roster naming both
C5_Witness ==
  /\ handled.op = "connection"
  /\ Len(connectedUsers) >= 2
  /\ \E i \in EventsTo(handled.socket, "online_users") :
       Len(emitted[i].data.users) >= 2

----------------------------------------------------------------------------
(* C6 *)

\* C6: a chat_message that carries the recipientId of a registered user puts
\* exactly two events on the wire: one chat_message on the recipient's
\* registered socket and one message_delivered, with the message's messageId
\* and recipientId, on the sender's socket.
C6_ChatDeliveredOnce ==
  (/\ handled.op = "chat_message"
   /\ handled.data.recipientId \in UserIds
   /\ MapHas(connectedUsers, handled.data.recipientId)) =>
    LET r == MapGet(connectedUsers, handled.data.recipientId).socketId
    IN /\ Len(emitted) = 2
       /\ Cardinality(EventsTo(r, "chat_message")) = 1
       /\ Cardinality(EventsTo(handled.socket, "message_delivered")) = 1
       /\ \A i \in EventsNamed("message_delivered") :
            /\ emitted[i].data.messageId = handled.data.messageId
            /\ emitted[i].data.recipientId = handled.data.recipientId

\* C6 witness: a chat message between two users while a third socket is open
C6_Witness ==
  /\ handled.op = "chat_message"
  /\ handled.data.recipientId \in UserIds
  /\ MapHas(connectedUsers, handled.data.recipientId)
  /\ sockets[handled.socket].userId # handled.data.recipientId
  /\ Len(emitted) = 2
  /\ \E t \in Connected(sockets) :
       t # handled.socket /\ sockets[t].userId # handled.data.recipientId

----------------------------------------------------------------------------
(* C7 *)

\* C7: a chat_message or initiate_call for a user who is not registered puts
\* exactly one event on the wire, a notice on the sender's socket.
C7_NonDeliveryNotice ==
  (/\ handled.op \in {"chat_message", "initiate_call"}
   /\ ~MapHas(connectedUsers, TargetOf(handled))) =>
    /\ Len(emitted) = 1
    /\ emitted[1].to = handled.socket

----------------------------------------------------------------------------
(* C8 *)

\* C8: a typing, webrtc or caption event for a user who is not registered
\* puts no event on any socket.
C8_BestEffortSilent ==
  (/\ handled.op \in BestEffortOps
   /\ ~MapHas(connectedUsers, TargetOf(handled))) =>
    emitted = <<>>

\* C8 witness: a webrtc_offer for an unregistered user while another socket
\* than the sender's is open
C8_Witness ==
  /\ handled.op = "webrtc_offer"
  /\ ~MapHas(connectedUsers, handled.data.toUserId)
  /\ \E t \in Connected(sockets) : t # handled.socket
  /\ emitted = <<>>

----------------------------------------------------------------------------
(* C9 *)

\* C9: an accept_call or reject_call that carries the callerId of a
\* registered user puts exactly one event on the wire, call_accepted or
\* call_rejected on the caller's registered socket, whatever targetUserId the
\* payload carries; the answering socket gets it only if it is that socket.
C9_AnswerGoesToCaller ==
  (/\ handled.op \in {"accept_call", "reject_call"}
   /\ handled.data.callerId \in UserIds
   /\ MapHas(connectedUsers, handled.data.callerId)) =>
    /\ Len(emitted) = 1
    /\ emitted[1].name = ForwardName(handled.op)
    /\ emitted[1].to = MapGet(connectedUsers, handled.data.callerId).socketId
    /\ sockets[emitted[1].to].userId = handled.data.callerId
    /\ sockets[handled.socket].userId # handled.data.callerId
         => emitted[1].to # handled.socket

\* C9 witness: receiver R accepts naming caller C while the payload's
\* targetUserId names R, both registered; C's socket gets call_accepted
C9_Witness ==
  /\ handled.op = "accept_call"
  /\ handled.data.callerId \in UserIds
  /\ handled.data.targetUserId # handled.data.callerId
  /\ sockets[handled.socket].userId = handled.data.targetUserId
  /\ MapHas(connectedUsers, handled.data.targetUserId)
  /\ MapHas(connectedUsers, handled.data.callerId)
  /\ EventsTo(MapGet(connectedUsers, handled.data.callerId).socketId, "call_accepted") # {}

----------------------------------------------------------------------------
(* C10 *)

\* C10: an accept_call or reject_call naming a callerId that is not
\* registered puts no event on any socket and leaves the registry as it is.
C10_AnswerToVanishedCallerDropped ==
  [][(/\ handled'.op \in {"accept_call", "reject_call"}
      /\ ~MapHas(connectedUsers, handled'.data.callerId))
     => (/\ emitted' = <<>>
         /\ connectedUsers' = connectedUsers)]_vars

\* C10 witness: the caller connected and disconnected, then the answer came
C10_Witness ==
  /\ handled.op = "reject_call"
  /\ handled.data.callerId \in UserIds
  /\ ~MapHas(connectedUsers, handled.data.callerId)
  /\ \E t \in SocketsOf(handled.data.callerId) : sockets[t].status = "disconnected"
  /\ emitted = <<>>

----------------------------------------------------------------------------
(* C11 *)

\* C11: a handshake without a token, or with a token that fails
\* verification, admits no socket, adds nothing to the registry and emits
\* nothing (no roster, no user_online); a socket is admitted and an entry is
\* added only by a connection whose token verified, and only admitted, open
\* sockets have events handled.
C11_RefusedHandshakeLeavesNoTrace ==
  [][/\ handled'.op = "connect_error" =>
          /\ sockets' = sockets
          /\ connectedUsers' = connectedUsers
          /\ emitted' = <<>>
     /\ handled'.op \in {"connection", "connect_error"} =>
          (handled'.op = "connection" <=> handled'.data.token.kind = "signed")
     /\ (\/ Len(sockets') > Len(sockets)
         \/ ~(MapKeys(connectedUsers') \subseteq MapKeys(connectedUsers)))
          => handled'.op = "connection"
     /\ handled'.op \in RoutedOps => handled'.socket \in Connected(sockets)]_vars

\* C11 witness: a handshake without token is refused while another socket is
\* open to hear a user_online, and none is sent
C11_Witness ==
  /\ handled.op = "connect_error"
  /\ handled.data.token = NoToken
  /\ Connected(sockets) # {}
  /\ emitted = <<>>

----------------------------------------------------------------------------
(* C12 *)

SenderIdFields == {"senderId", "callerId", "targetUserId", "fromUserId"}

SenderNameFields ==
  {"senderUsername", "callerName", "callerUsername", "targetUsername", "fromUsername"}

ForwardingOps == RoutedOps \ {"friend_request_sent"}

\* C12: in every event forwarded to a target, each sender-identifying field
\* holds the userId, or the username, verified for the sending socket.
C12_ServerAttributesSender ==
  handled.op \in ForwardingOps =>
    \A i \in Forwards :
      /\ \A f \in SenderIdFields \cap DOMAIN emitted[i].data :
           emitted[i].data[f] = sockets[handled.socket].userId
      /\ \A f \in SenderNameFields \cap DOMAIN emitted[i].data :
           emitted[i].data[f] = sockets[handled.socket].username

----------------------------------------------------------------------------
(* C13 *)

\* C13: when a socket of a registered user disconnects, the user's entry is
\* removed and every socket still open gets exactly one user_offline naming
\* the user; and an event handled while its target is not registered is
\* forwarded to nobody.
C13_DisconnectUnregisters ==
  [][/\ (/\ handled'.op = "disconnect"
         /\ MapHas(connectedUsers, sockets[handled'.socket].userId))
          => /\ ~MapHas(connectedUsers', sockets[handled'.socket].userId)
             /\ \A t \in Connected(sockets') :
                  Cardinality({i \in 1..Len(emitted') :
                                 /\ emitted'[i].to = t
                                 /\ emitted'[i].name = "user_offline"
                                 /\ emitted'[i].data.userId = sockets[handled'.socket].userId}) = 1
     /\ (/\ handled'.op \in RoutedOps
         /\ ~MapHas(connectedUsers, TargetOf(handled')))
          => Forwards' = {}]_vars

----------------------------------------------------------------------------
(* C15 *)

\* C15: a routed event is forwarded at most once, to the socket registered
\* for the userId it addresses; any other event it causes is a
\* message_delivered or call_rejected on the sender's own socket.
C15_OnlyTargetAndSender ==
  handled.op \in RoutedOps =>
    /\ Cardinality(Forwards) <= 1
    /\ \A i \in 1..Len(emitted) :
         \/ /\ i \in Forwards
            /\ MapHas(connectedUsers, TargetOf(handled))
            /\ emitted[i].to = MapGet(connectedUsers, TargetOf(handled)).socketId
         \/ /\ emitted[i].to = handled.socket
            /\ emitted[i].name \in {"message_delivered", "call_rejected"}

\* C15 witness: a call invitation reaches its target while a socket of a
\* third identity is open and gets nothing
C15_Witness ==
  /\ handled.op = "initiate_call"
  /\ Cardinality(Forwards) = 1
  /\ \E t \in Connected(sockets) :
       /\ sockets[t].userId # sockets[handled.socket].userId
       /\ sockets[t].userId # handled.data.targetUserId
       /\ \A i \in 1..Len(emitted) : emitted[i].to # t

----------------------------------------------------------------------------
(* C17 *)

\* C17: every event an initiate_call, accept_call or reject_call causes
\* (incoming_call, call_accepted, call_rejected, to the target or back to the
\* sender) carries the callId of that inbound event, and incoming_call names
\* the initiator's verified userId as callerId.
C17_CallIdCarriedThrough ==
  handled.op \in {"initiate_call", "accept_call", "reject_call"} =>
    \A i \in 1..Len(emitted) :
      /\ emitted[i].data.callId = handled.data.callId
      /\ emitted[i].name = "incoming_call" =>
           emitted[i].data.callerId = sockets[handled.socket].userId

\* C17 witness: the invitation for call "c2" reaches a socket other than the
\* initiator's
C17_Witness ==
  /\ handled.op = "initiate_call"
  /\ handled.data.callId = "c2"
  /\ \E i \in EventsNamed("incoming_call") :
       emitted[i].to # handled.socket /\ emitted[i].data.callId = "c2"

----------------------------------------------------------------------------
(* C19 *)

SignalOps == {"webrtc_offer", "webrtc_answer", "webrtc_ice_candidate", "webrtc_end_call"}

\* C19: a webrtc_* event that carries the toUserId of a registered user puts
\* exactly one event on the wire, of the same name, on that user's registered
\* socket; it holds every inbound field with its inbound value, except
\* fromUserId, which is the sender's verified userId.
C19_SignalPassedThrough ==
  (/\ handled.op \in SignalOps
   /\ handled.data.toUserId \in UserIds
   /\ MapHas(connectedUsers, handled.data.toUserId)) =>
    /\ Len(emitted) = 1
    /\ emitted[1].name = handled.op
    /\ emitted[1].to = MapGet(connectedUsers, handled.data.toUserId).socketId
    /\ DOMAIN emitted[1].data = (DOMAIN handled.data) \cup {"fromUserId"}
    /\ \A f \in (DOMAIN handled.data) \ {"fromUserId"} :
         emitted[1].data[f] = handled.data[f]
    /\ emitted[1].data.fromUserId = sockets[handled.socket].userId

\* C19 witness: an ICE candidate relayed between two users, the client's own
\* fromUserId replaced
C19_Witness ==
  /\ handled.op = "webrtc_ice_candidate"
  /\ Len(emitted) = 1
  /\ emitted[1].to # handled.socket
  /\ emitted[1].data.sdp = handled.data.sdp
  /\ emitted[1].data.fromUserId # handled.data.fromUserId

----------------------------------------------------------------------------
(* C20 *)

\* the fields an inbound event must carry
RequiredFields(op) ==
  CASE op = "chat_message" -> {"recipientId", "messageId", "text"}
    [] op \in {"typing_start", "typing_end"} -> {"recipientId"}
    [] op = "initiate_call" -> {"callId", "roomId", "targetUserId", "targetUsername"}
    [] op = "accept_call" -> {"callId", "roomId", "callerId"}
    [] op = "reject_call" -> {"callId", "callerId"}
    [] op = "send_caption" -> {"toUserId", "callId", "caption"}
    [] OTHER -> {"toUserId", "callId"}

Malformed(h) == \E f \in RequiredFields(h.op) : h.data[f] = Undefined

\* C20: an inbound event that lacks a required field is forwarded to nobody.
C20_MalformedDropped ==
  (handled.op \in ForwardingOps /\ Malformed(handled)) => Forwards = {}

----------------------------------------------------------------------------
(* C16 *)

\* the chat messages and offers socket t received that socket s sent
ForwardsFrom(s, t) ==
  SelectSeq(inbox[t], LAMBDA ev : ev.from = s /\ ev.name \in {"chat_message", "webrtc_offer"})

\* C16: what a socket receives of one sender's envelopes, it receives in the
\* order the sender emitted them, whatever other senders' envelopes come in
\* between.
C16_FifoPerSender ==
  \A s \in 1..MaxSockets, t \in 1..MaxSockets :
    \A i \in 1..Len(ForwardsFrom(s, t)), j \in 1..Len(ForwardsFrom(s, t)) :
      i < j => ForwardsFrom(s, t)[i].data.seq < ForwardsFrom(s, t)[j].data.seq

\* C16 witness: a socket received the first and the second envelope of
\* another socket with a third socket's envelope in between
C16_Witness ==
  \E s \in 1..MaxSockets, t \in 1..MaxSockets :
    \E i \in 1..Len(inbox[t]), j \in 1..Len(inbox[t]), k \in 1..Len(inbox[t]) :
      /\ s # t
      /\ i < j /\ j < k
      /\ inbox[t][i].from = s /\ inbox[t][k].from = s
      /\ inbox[t][j].from \notin {s, t}
      /\ \A n \in {i, j, k} : inbox[t][n].name \in {"chat_message", "webrtc_offer"}
      /\ inbox[t][i].data.seq = 1
      /\ inbox[t][k].data.seq = 2

----------------------------------------------------------------------------
(* C18 *)

\* an invitation for call c has been emitted by some client
Invited(c) ==
  \E s \in 1..MaxSockets : \E i \in 1..Len(sent[s]) :
    sent[s][i].op = "initiate_call" /\ sent[s][i].data.callId = c

\* the call_accepted events for call c that socket t received from socket s
Acceptances(s, t, c) ==
  {i \in 1..Len(inbox[t]) :
     /\ inbox[t][i].from = s
     /\ inbox[t][i].name = "call_accepted"
     /\ inbox[t][i].data.callId = c}

\* C18: after any sequence of invitations, answers, connections and
\* disconnections, an accept_call or a webrtc_answer is forwarded, once, if
\* the user it names is registered, and is not forwarded if that user is not.
C18_NoCallState ==
  handled.op \in {"accept_call", "webrtc_answer"} =>
    Cardinality(Forwards) = IF MapHas(connectedUsers, TargetOf(handled)) THEN 1 ELSE 0

\* C18 witness: another socket has received call_accepted twice for a call
\* nobody was invited to
C18_Witness ==
  /\ handled.op = "accept_call"
  /\ ~Invited(handled.data.callId)
  /\ Cardinality(Forwards) = 1
  /\ \E t \in 1..MaxSockets \ {handled.socket} :
       Cardinality(Acceptances(handled.socket, t, handled.data.callId)) = 2

----------------------------------------------------------------------------
(* C14 *)

\* the roster entry of socket s
RosterEntry(s) ==
  [userId |-> sockets[s].userId, username |-> sockets[s].username, socketId |-> s]

\* the roster the n-th socket to connect receives: the sockets before it,
\* and itself if the entrant is listed
Roster(n, withEntrant) ==
  [i \in 1..(IF withEntrant THEN n ELSE n - 1) |-> RosterEntry(i)]

\* envelopes of socket s the server has handled
HandledOf(s) == Len(sent[s]) - Len(pending[s])

\* the session of A (socket 1) and B (socket 2), stage by stage, as their
\* sockets see it
Scenario(withEntrant) ==
  /\ Len(sockets) >= 1 =>
       /\ Len(inbox[1]) >= 1
       /\ inbox[1][1].name = "online_users"
       /\ inbox[1][1].data.users = Roster(1, withEntrant)
  /\ Len(sockets) >= 2 =>
       /\ Len(inbox[2]) >= 1
       /\ inbox[2][1].name = "online_users"
       /\ inbox[2][1].data.users = Roster(2, withEntrant)
       /\ Len(inbox[1]) >= 2
       /\ inbox[1][2].name = "user_online"
       /\ inbox[1][2].data.userId = sockets[2].userId
  /\ (1 \in Connected(sockets) /\ HandledOf(1) >= 1) =>
       /\ Len(inbox[2]) >= 2
       /\ inbox[2][2].name = "incoming_call"
       /\ inbox[2][2].data.callId = sent[1][1].data.callId
       /\ inbox[2][2].data.callerId = sockets[1].userId
  /\ HandledOf(2) >= 1 =>
       /\ Len(inbox[1]) >= 3
       /\ inbox[1][3].name = "call_rejected"
       /\ inbox[1][3].from = 2
       /\ inbox[1][3].data.callId = sent[1][1].data.callId
  /\ (Len(sockets) >= 1 /\ 1 \notin Connected(sockets)) =>
       /\ Len(inbox[2]) >= 3
       /\ inbox[2][3].name = "user_offline"
       /\ inbox[2][3].data.userId = sockets[1].userId
  /\ Len(inbox[1]) <= 3
  /\ \A i \in 4..Len(inbox[2]) :
       /\ inbox[2][i].name = "call_rejected"
       /\ inbox[2][i].data.reason = "User not online"

\* C14 (as stated): the session runs with A receiving an empty roster and B
\* the roster [A]; B receives A's invitation, A receives B's rejection, B
\* receives user_offline for A, and nothing B sends to A afterwards is
\* delivered.
C14_ScenarioAsStated == Scenario(FALSE)

\* C14 (amended): the same session, with A receiving the roster [A] and B
\* the roster [A, B].
C14_ScenarioWithEntrant == Scenario(TRUE)

\* C14 witness: the session has run to its end and B's chat message to A
\* has been handled with nothing received by anyone
C14_Witness ==
  /\ handled.op = "chat_message"
  /\ handled.socket = 2
  /\ handled.data.recipientId = sockets[1].userId
  /\ 1 \notin Connected(sockets)
  /\ emitted = <<>>
  /\ Len(inbox[1]) = 3
  /\ Len(inbox[2]) = 3
  /\ inbox[2][3].name = "user_offline"

----------------------------------------------------------------------------
(* C21 *)

\* the chat messages with payload d that socket s emitted and the server has
\* handled
HandledChats(s, d) ==
  {i \in 1..HandledOf(s) : sent[s][i].op = "chat_message" /\ sent[s][i].data = d}

\* the events called name that socket t received from the handlers of socket
\* s for the chat message with payload d
ChatEvents(s, t, name, d) ==
  {i \in 1..Len(inbox[t]) :
     /\ inbox[t][i].from = s
     /\ inbox[t][i].name = name
     /\ inbox[t][i].data.messageId = d.messageId
     /\ inbox[t][i].data.recipientId = d.recipientId}

\* C21: with the registry fixed, each time a socket's chat message to a
\* registered user is handled the target's socket receives one more
\* chat_message and the sender one more message_delivered: as many forwards
\* and confirmations as envelopes handled, duplicates included.
C21_NoDeduplication ==
  \A s \in Connected(sockets), d \in RepeatChats :
    MapHas(connectedUsers, d.recipientId) =>
      /\ Cardinality(ChatEvents(s, MapGet(connectedUsers, d.recipientId).socketId,
                                "chat_message", d))
           = Cardinality(HandledChats(s, d))
      /\ Cardinality(ChatEvents(s, s, "message_delivered", d))
           = Cardinality(HandledChats(s, d))

\* C21 witness: one socket emitted the same chat message twice and another
\* socket received it twice
C21_Witness ==
  \E s \in Connected(sockets), d \in RepeatChats :
    /\ Cardinality(HandledChats(s, d)) = 2
    /\ \E t \in Connected(sockets) \ {s} :
         Cardinality(ChatEvents(s, t, "chat_message", d)) = 2
    /\ Cardinality(ChatEvents(s, s, "message_delivered", d)) = 2

----------------------------------------------------------------------------
(* C22 *)

\* C22: a send_caption that names a registered user puts exactly one event
\* on the wire: receive_caption on that user's registered socket, with the
\* inbound caption and callId and the sender's verified userId and username.
C22_CaptionRelayedOnce ==
  (/\ handled.op = "send_caption"
   /\ handled.data.toUserId \in UserIds
   /\ MapHas(connectedUsers, handled.data.toUserId)) =>
    emitted = << Event(MapGet(connectedUsers, handled.data.toUserId).socketId,
                       "receive_caption",
                       [caption |-> handled.data.caption,
                        callId |-> handled.data.callId,
                        fromUserId |-> sockets[handled.socket].userId,
                        fromUsername |-> sockets[handled.socket].username]) >>

\* C22 witness: a caption relayed to another socket
C22_Witness ==
  /\ handled.op = "send_caption"
  /\ Len(emitted) = 1
  /\ emitted[1].name = "receive_caption"
  /\ emitted[1].to # handled.socket
  /\ emitted[1].data.caption = handled.data.caption

----------------------------------------------------------------------------
(* C23 *)

\* C23: the handler of a routed event (and of user_online) leaves the
\* registry as it was, whether or not the target is registered; a step that
\* changes the registry is a connection or a disconnect.
C23_RoutingLeavesRegistry ==
  [][/\ handled'.op \in RoutedOps \cup {"user_online"} => connectedUsers' = connectedUsers
     /\ connectedUsers' # connectedUsers => handled'.op \in {"connection", "disconnect"}]_vars

\* C23 witness: a friend request to a user who is not registered has been
\* handled while others are registered
C23_Witness ==
  /\ handled.op = "friend_request_sent"
  /\ ~MapHas(connectedUsers, handled.data.toUserId)
  /\ connectedUsers # <<>>
  /\ emitted = <<>>

----------------------------------------------------------------------------
(* C24 *)

MissingTokenError == "Authentication error: No token provided"
InvalidTokenError == "Authentication error: Invalid token"

\* C24: a handshake without a token is refused with the missing-token error
\* and one whose token fails verification with the invalid-token error, two
\* different errors; a refusal belongs to no socket, and every socket there
\* is got its identity from the payload of a token that verified.
C24_TwoRefusalErrors ==
  /\ MissingTokenError # InvalidTokenError
  /\ handled.op = "connect_error" =>
       /\ handled.socket = 0
       /\ handled.data.token = NoToken => handled.data.error = MissingTokenError
       /\ handled.data.token # NoToken =>
            /\ ~JwtVerifies(handled.data.token)
            /\ handled.data.error = InvalidTokenError
  /\ \A s \in 1..Len(sockets) :
       [userId |-> sockets[s].userId, username |-> sockets[s].username] \in Payloads

\* C24 witness: a token that fails verification has been refused while a
\* socket is open
C24_Witness ==
  /\ handled.op = "connect_error"
  /\ handled.data.token = BadToken
  /\ handled.data.error = InvalidTokenError
  /\ Connected(sockets) # {}

----------------------------------------------------------------------------
(* C27 *)

\* C27: every entry of the registry names a socket that is connected.
C27_EntriesNameOpenSockets ==
  \A i \in 1..Len(connectedUsers) :
    connectedUsers[i].value.socketId \in Connected(sockets)

----------------------------------------------------------------------------
(* C29 *)

\* C29: a user_offline event never reaches a socket whose own userId it
\* names (events reach connected sockets only).
C29_NoOfflineForOwnUser ==
  \A i \in EventsNamed("user_offline") :
    sockets[emitted[i].to].userId # emitted[i].data.userId

----------------------------------------------------------------------------
(* C30 *)

\* C30: once every socket that was admitted has disconnected, the registry
\* is empty.
C30_EmptyWhenAllGone ==
  (Len(sockets) > 0 /\ Connected(sockets) = {}) => connectedUsers = <<>>

----------------------------------------------------------------------------
(* C28 *)

RECURSIVE ViewAfter(_, _)
\* the users a client holds to be online after the first n events of box:
\* the roster of online_users, plus each user_online, minus each user_offline
ViewAfter(box, n) ==
  IF n = 0
    THEN {}
    ELSE LET ev == box[n]
             before == ViewAfter(box, n - 1)
         IN CASE ev.name = "online_users" ->
                   {ev.data.users[i].userId : i \in 1..Len(ev.data.users)}
              [] ev.name = "user_online" -> before \cup {ev.data.userId}
              [] ev.name = "user_offline" -> before \ {ev.data.userId}
              [] OTHER -> before

View(t) == ViewAfter(inbox[t], Len(inbox[t]))

\* C28: between handlers, the users each connected socket holds to be
\* online are the keys of the registry.
C28_ViewIsRegistry ==
  \A t \in Connected(sockets) : View(t) = MapKeys(connectedUsers)

\* C28 witness: a connected socket has seen another user come and go and a
\* second user stay
C28_Witness ==
  \E t \in Connected(sockets) :
    /\ \E i \in 1..Len(inbox[t]) : inbox[t][i].name = "user_offline"
    /\ \E i \in 1..Len(inbox[t]) : inbox[t][i].name = "user_online"
    /\ Cardinality(View(t)) >= 2

----------------------------------------------------------------------------
(* C25 *)

\* C25: in the raw relay, a message of a relayed type that arrives on a
\* connection which has not sent auth is forwarded to nobody.
C25_RelayOnlyAfterAuth ==
  (/\ wsHandled.op = "message"
   /\ wsHandled.data.type \in RelayTypes
   /\ channels[wsHandled.channel].userId = Null) => wsSent = <<>>

----------------------------------------------------------------------------
(* C26 *)

\* C26: in the raw relay, the fromUserId or callerId of every message
\* forwarded for a connection that has registered with auth is the userId
\* it registered under.
C26_SenderIsRegisteredUser ==
  (/\ wsHandled.op = "message"
   /\ wsHandled.data.type \in RelayTypes
   /\ Truthy(channels[wsHandled.channel].userId)) =>
    \A i \in 1..Len(wsSent) :
      \A f \in {"fromUserId", "callerId"} \cap DOMAIN wsSent[i].message :
        wsSent[i].message[f] = channels[wsHandled.channel].userId

----------------------------------------------------------------------------
(* C31 *)

\* the userId the handler of message h passes to sendToUser
SendToUserArg(h) ==
  IF h.data.type = "auth" THEN h.data.userId
  ELSE IF h.data.type \in RelayTypes THEN h.data.targetUserId
  ELSE Undefined

\* the userIds sendToUser can be called with
SendToUserArgs == UserIds \cup {Undefined, Null}

\* sendToUser in the present state: it writes at most one message, to the
\* connection registered under userId and only when that connection is
\* OPEN, and returns true exactly when it wrote
SendToUserGuarded ==
  \A userId \in SendToUserArgs :
    LET r == SendToUser(channels, wsConnectedUsers, userId, [type |-> "probe"])
        registered == userId \in DOMAIN wsConnectedUsers
        open == registered /\ wsConnectedUsers[userId] \in OpenChannels(channels)
    IN /\ r.returns = (r.written # <<>>)
       /\ r.returns = open
       /\ open => r.written = << [to |-> wsConnectedUsers[userId],
                                  message |-> [type |-> "probe"]] >>

\* what a handler that has just run wrote went to connections that are
\* OPEN and registered under the userId it passed to sendToUser
WrittenToOpen ==
  (wsHandled' # wsHandled \/ wsSent' # wsSent) =>
    \A i \in 1..Len(wsSent') :
      /\ wsSent'[i].to \in OpenChannels(channels')
      /\ SendToUserArg(wsHandled') \in DOMAIN wsConnectedUsers'
      /\ wsConnectedUsers'[SendToUserArg(wsHandled')] = wsSent'[i].to

\* C31: sendToUser writes only to the OPEN connection registered under the
\* userId and returns true exactly when it wrote, so no handler ever writes
\* on a closing or closed connection.
C31_SendOnlyWhenOpen == []SendToUserGuarded /\ [][WrittenToOpen]_vars

\* C31 witness: a relayed message was handled whose target is registered on
\* a connection that is closing, and nothing was written
C31_Witness ==
  /\ wsHandled.op = "message"
  /\ wsHandled.data.type \in RelayTypes
  /\ wsHandled.data.targetUserId \in DOMAIN wsConnectedUsers
  /\ channels[wsConnectedUsers[wsHandled.data.targetUserId]].readyState = "CLOSING"
  /\ wsSent = <<>>

----------------------------------------------------------------------------
(* C32 *)

\* C32: in the raw relay, no registry entry refers to a connection that has
\* closed.
C32_NoEntryForClosed ==
  \A k \in DOMAIN wsConnectedUsers :
    channels[wsConnectedUsers[k]].readyState # "CLOSED"

====
